---- MODULE Spec2Model ----
(***************************************************************************)
(* Frame driver of the halftone components.                                *)
(*                                                                         *)
(* Two React components are modelled, one instance at a time:              *)
(*   "HalftoneEffect"  the REGL component (src/unnamed/part_000)           *)
(*   "Halftone"        the raw WebGL component (src/Halftone.tsx)          *)
(*                                                                         *)
(* A step of the model is one task of the JavaScript event loop, run to    *)
(* completion: a change of props with the render and the effects it        *)
(* causes, a load or error event of a media element, an animation-frame    *)
(* callback, or the unmount.  State set by an event handler re-renders the *)
(* component inside the same step.  Closures are modelled by the values    *)
(* they captured: a media element carries the settings of the render that  *)
(* created it, an animation-frame callback those of the loop it belongs to.*)
(***************************************************************************)
EXTENDS Integers, Sequences, FiniteSets, TLC

VARIABLES
    component,              \* which component this instance is
    mounted,                \* FALSE once the effect cleanups of the unmount ran
    renderTarget,           \* what RenderTarget.current() returns (environment)
    src,                    \* prop: media URL, a sequence of URL parts
    settings,               \* props: the halftone settings (dotSize, spacing, ...)
    customShapeUrl,         \* prop
    mediaLoaded,            \* useState
    actualMediaType,        \* useState (HalftoneEffect)
    isVideo,                \* useState (Halftone)
    reglRef,                \* useRef: TRUE when non-null (HalftoneEffect)
    glRef,                  \* useRef: TRUE when non-null (Halftone; programRef alike)
    textureRef,             \* useRef: texture id, Null when null
    customShapeTextureRef,  \* useRef: texture id, Null when null
    drawCommandRef,         \* useRef: TRUE when non-null
    animationFrameRef,      \* useRef: request id, Null when null
    videoRef,               \* useRef (Halftone): src of the element, NoSrc when null
    imageRef,               \* useRef (Halftone): src of the element, NoSrc when null
    textures,               \* ids of the GPU textures created and not yet destroyed
    texData,                \* what the texture of textureRef holds
    loads,                  \* media elements whose load is in flight
    pending,                \* animation-frame callbacks requested and not yet run
    uncaught,               \* TRUE once an exception escaped a handler
    last,                   \* the handler that ran last and the GL operations it made
    \* the Sampler (fragment shader) and the values it is run with
    glsl,                   \* the GLSL implementation the shader runs on
    uniforms,               \* the uniforms of the draw call
    grid,                   \* the texels of the source texture
    buffer,                 \* the output pixel buffer: colour of every pixel
    drawn,                  \* the uniforms and the texels of the draw call made last
    \* the props as the host passes them, and the canvas of HalftoneEffect
    props,                  \* type, dotShape, pattern, colours, mediaType, src
    box,                    \* props width, height, objectFit
    media,                  \* natural size of the loaded media, <<0, 0>> when none
    canvasSize              \* useState (HalftoneEffect)

\* the variables of the Sampler, and those of the props and the canvas
gpu    == <<glsl, uniforms, grid, buffer, drawn>>
layout == <<props, box, media, canvasSize>>

vars == <<component, mounted, renderTarget, src, settings, customShapeUrl,
          mediaLoaded, actualMediaType, isVideo, reglRef, glRef, textureRef,
          customShapeTextureRef, drawCommandRef, animationFrameRef, videoRef,
          imageRef, textures, texData, loads, pending, uncaught, last,
          gpu, layout>>

\* the variables of the frame driver
driver == <<component, mounted, renderTarget, src, settings, customShapeUrl,
            mediaLoaded, actualMediaType, isVideo, reglRef, glRef, textureRef,
            customShapeTextureRef, drawCommandRef, animationFrameRef, videoRef,
            imageRef, textures, texData, loads, pending, uncaught, last>>

----------------------------------------------------------------------------
\* Bounds of the model

MaxInFlight == 2        \* media elements loading at the same time
MaxTextures == 2        \* textures alive at the same time

----------------------------------------------------------------------------
\* Values

Null  == 0
NoSrc == << >>

videoExtensions == {".mp4", ".webm", ".ogg", ".mov"}

Srcs      == {<<"a", ".mp4">>, <<"b", ".mp4">>, <<"c", ".png">>}
ShapeUrls == {<<"s", ".png">>}
\* the halftone settings, told apart by dotSize: the default and one other
DefaultSettings == [dotSize |-> 10]
Settings  == {DefaultSettings, [dotSize |-> 20]}
RenderTargets == {"preview", "canvas", "export"}

\* What a texture holds: the media element it was filled from
NoData == [src |-> NoSrc, video |-> FALSE]
ImageData(s) == [src |-> s, video |-> FALSE]

\* One GL-level operation of a handler: "upload" (texture filled from the
\* media element), "eval" (the draw call: the Sampler evaluated with settings
\* cfg over a texture holding data), "raf" (requestAnimationFrame),
\* "error" (console.error).
Op(name, cfg, data) == [op |-> name, cfg |-> cfg, data |-> data]

\* What the last handler was (for the event of a media element: with the src
\* of the element) and the operations it made, in their order
Handled(h, s, ops) == [h |-> h, src |-> s, ops |-> ops]

\* The smallest id not in use.  Ids are opaque handles: an id is taken again
\* only when no ref and no pending callback holds it any more.
FreshId(used) == CHOOSE i \in 1..(Cardinality(used) + 1) :
                    i \notin used /\ \A j \in 1..(i - 1) : j \in used

\* A media element whose load is in flight.  Only the handlers of a video
\* element use the settings their render captured (through renderFrame).
NewLoad(kind, s, cfg) ==
    [kind |-> kind, src |-> s, cfg |-> IF kind = "video" THEN cfg ELSE DefaultSettings]

\* cancelAnimationFrame(id)
CancelAnimationFrame(p, id) == {f \in p : f.id # id}

----------------------------------------------------------------------------
\* HalftoneEffect: pure parts

DetectMediaType(s) ==
    IF \E i \in DOMAIN s : s[i] \in videoExtensions THEN "video" ELSE "image"

IsStatic(target) == target = "canvas" \/ target = "export"

\* renderFrame of a render whose settings are cfg, with the refs as given
RenderFrame(regl, draw, tex, data, cfg) ==
    IF ~regl \/ ~draw \/ tex = Null THEN << >>
    ELSE << Op("eval", cfg, data) >>

\* texture({data: video}): the texture takes the frame the video shows
VideoFrame(video) == [src |-> video, video |-> TRUE]

\* `render` with the draw call made before the texture is filled
RenderDrawFirst(regl, draw, tex, live, data, video, cfg) ==
    IF ~regl \/ tex = Null \/ ~draw
    THEN [ops |-> << Op("raf", cfg, NoData) >>, data |-> data, raf |-> TRUE]
    ELSE [ops  |-> RenderFrame(regl, draw, tex, data, cfg)
                   \o << Op("upload", cfg, VideoFrame(video)), Op("raf", cfg, NoData) >>,
          data |-> VideoFrame(video),
          raf  |-> TRUE]

\* One run of the closure `render` of startVideoRenderLoop for the element
\* video, settings cfg captured: the operations, the data the texture holds
\* afterwards, and whether a next callback was requested.
Render(regl, draw, tex, live, data, video, cfg) ==
    IF ~regl \/ tex = Null \/ ~draw
    THEN [ops |-> << Op("raf", cfg, NoData) >>, data |-> data, raf |-> TRUE]
    ELSE LET ok == tex \in live
             d  == IF ok THEN VideoFrame(video) ELSE data
             up == IF ok THEN Op("upload", cfg, d) ELSE Op("error", cfg, NoData)
         IN  [ops  |-> << up >> \o RenderFrame(regl, draw, tex, d, cfg)
                        \o << Op("raf", cfg, NoData) >>,
              data |-> d,
              raf  |-> TRUE]

StartVideoRenderLoop(target, regl, draw, tex, live, data, video, cfg) ==
    IF IsStatic(target)
    THEN [ops |-> RenderFrame(regl, draw, tex, data, cfg), data |-> data, raf |-> FALSE]
    ELSE Render(regl, draw, tex, live, data, video, cfg)

\* The effect "re-render when settings change", run by a render whose
\* settings are cfg
ReRenderEffect(loaded, amt, regl, draw, tex, data, cfg) ==
    IF loaded /\ amt = "image" THEN RenderFrame(regl, draw, tex, data, cfg) ELSE << >>


\* An element fires its load event only for media it can decode.  The element
\* that the load effect creates with the actualMediaType of the render before
\* the detect effect corrected it can only fire its error event, whose
\* handler logs and changes nothing: it is left out of the loads in flight.
Decodable(l) == l.kind = "shape" \/ l.kind = DetectMediaType(l.src)

\* texture.destroy(): regl raises when the texture was destroyed before
Destroy(live, t) == [live |-> live \ {t}, threw |-> t \notin live]

\* ref.current.destroy() without the try around it
DestroyUnguarded(live, t) ==
    IF t = Null THEN [live |-> live, threw |-> FALSE] ELSE Destroy(live, t)

\* try { ref.current.destroy() } catch (e) {}, skipped when the ref is null
TryDestroy(live, t) ==
    IF t = Null THEN [live |-> live, threw |-> FALSE]
    ELSE [live |-> Destroy(live, t).live, threw |-> FALSE]

\* The media elements the load effect creates when it runs for src s in a
\* render whose actualMediaType is amt, and again in the render that follows
\* when the detect effect has changed actualMediaType.
MediaLoads(s, amt, cfg) ==
    IF s = NoSrc THEN {}
    ELSE {l \in {NewLoad(amt, s, cfg), NewLoad(DetectMediaType(s), s, cfg)} : Decodable(l)}

\* The element the custom shape effect creates for url u
ShapeLoads(u, cfg) ==
    IF u = NoSrc THEN {} ELSE {NewLoad("shape", u, cfg)}

----------------------------------------------------------------------------
\* HalftoneEffect: the state after the first commit.  actualMediaType starts
\* as "image"; the detect effect corrects it and the load effect runs again.

\* The frame driver is checked with the Sampler, the props and the canvas left
\* out: their variables hold nothing.
Gpu0    == glsl = << >> /\ uniforms = << >> /\ grid = << >> /\ buffer = << >> /\ drawn = << >>
Layout0 == props = << >> /\ box = << >> /\ media = << >> /\ canvasSize = << >>

EffectInit ==
    /\ Gpu0 /\ Layout0
    /\ component = "HalftoneEffect"
    /\ mounted = TRUE
    /\ renderTarget \in RenderTargets
    /\ src \in Srcs \cup {NoSrc}
    /\ settings = DefaultSettings
    /\ customShapeUrl = NoSrc
    /\ mediaLoaded = FALSE
    /\ actualMediaType = DetectMediaType(src)
    /\ isVideo = FALSE
    /\ reglRef = TRUE
    /\ glRef = FALSE
    /\ textureRef = Null
    /\ customShapeTextureRef = Null
    /\ drawCommandRef = FALSE
    /\ animationFrameRef = Null
    /\ videoRef = NoSrc
    /\ imageRef = NoSrc
    /\ textures = {}
    /\ texData = NoData
    /\ loads = MediaLoads(src, "image", settings) \cup ShapeLoads(customShapeUrl, settings)
    /\ pending = {}
    /\ uncaught = FALSE
    /\ last = Handled("mount", NoSrc, << >>)

----------------------------------------------------------------------------
\* HalftoneEffect: props change

\* src changes: the detect effect, the cleanup of the load effect and the load
\* effect run; the state they set renders again and the load effect runs a
\* second time when actualMediaType changed.
EffectSetSrc(s) ==
    /\ component = "HalftoneEffect" /\ mounted
    /\ s # src
    /\ LET new == MediaLoads(s, actualMediaType, settings)
       IN  /\ Cardinality(loads) + Cardinality(new) <= MaxInFlight
           /\ new \cap loads = {}      \* elements in flight differ from one another
           /\ loads' = loads \cup new
    /\ src' = s
    /\ actualMediaType' = DetectMediaType(s)
    /\ mediaLoaded' = IF ~reglRef \/ s = NoSrc THEN mediaLoaded ELSE FALSE
    \* the cleanup exists when the previous run got past `!reglRef.current || !src`
    \* (the run of the first render, when a second one follows)
    /\ IF (src # NoSrc \/ (s # NoSrc /\ DetectMediaType(s) # actualMediaType))
          /\ animationFrameRef # Null
       THEN /\ pending' = CancelAnimationFrame(pending, animationFrameRef)
            /\ animationFrameRef' = Null
       ELSE UNCHANGED <<pending, animationFrameRef>>
    /\ last' = Handled("setSrc", s, << >>)
    /\ UNCHANGED <<gpu, layout, component, mounted, renderTarget, settings, customShapeUrl,
                   isVideo, reglRef, glRef, textureRef, customShapeTextureRef,
                   drawCommandRef, videoRef, imageRef, textures, texData, uncaught>>

\* a halftone setting changes: the re-render effect runs with the new settings
EffectSetSettings(cfg) ==
    /\ component = "HalftoneEffect" /\ mounted
    /\ cfg # settings
    /\ settings' = cfg
    /\ last' = Handled("setSettings", NoSrc,
                       ReRenderEffect(mediaLoaded, actualMediaType, reglRef,
                                      drawCommandRef, textureRef, texData, cfg))
    /\ UNCHANGED <<gpu, layout, component, mounted, renderTarget, src, customShapeUrl,
                   mediaLoaded, actualMediaType, isVideo, reglRef, glRef, textureRef,
                   customShapeTextureRef, drawCommandRef, animationFrameRef, videoRef,
                   imageRef, textures, texData, loads, pending, uncaught>>

\* customShapeUrl changes: cleanup of the custom shape effect, then the effect
EffectSetCustomShapeUrl(u) ==
    /\ component = "HalftoneEffect" /\ mounted
    /\ u # customShapeUrl
    /\ LET new == ShapeLoads(u, settings)
       IN  /\ Cardinality(loads) + Cardinality(new) <= MaxInFlight
           /\ new \cap loads = {}
           /\ loads' = loads \cup new
    /\ customShapeUrl' = u
    \* the old url or the new one is empty, or both: one of the cleanup and the
    \* early return of the effect destroys the texture and clears the ref
    /\ IF customShapeUrl # NoSrc \/ ~reglRef \/ u = NoSrc
       THEN /\ textures' = TryDestroy(textures, customShapeTextureRef).live
            /\ customShapeTextureRef' = Null
       ELSE UNCHANGED <<textures, customShapeTextureRef>>
    /\ last' = Handled("setCustomShapeUrl", u, << >>)
    /\ UNCHANGED <<gpu, layout, component, mounted, renderTarget, src, settings, mediaLoaded,
                   actualMediaType, isVideo, reglRef, glRef, textureRef, drawCommandRef,
                   animationFrameRef, videoRef, imageRef, texData, pending, uncaught>>

----------------------------------------------------------------------------
\* HalftoneEffect: events of the media elements

\* the load handlers without their guard
LoadProceedsAlways(regl) == TRUE

\* `if (!reglRef.current) return` at the head of the load handlers
LoadProceeds(regl) == regl

\* img.onload; setMediaLoaded(true) renders again when it changes the state,
\* and the re-render effect of that render runs with the current settings
EffectImgOnload(l) ==
    /\ component = "HalftoneEffect"
    /\ l \in loads /\ l.kind = "image" /\ Decodable(l)
    /\ loads' = loads \ {l}
    /\ IF ~LoadProceeds(reglRef)
       THEN /\ last' = Handled("img.onload", l.src, << >>)
            /\ UNCHANGED <<textures, textureRef, texData, drawCommandRef, mediaLoaded>>
       ELSE LET kept == TryDestroy(textures, textureRef).live
                tex  == FreshId(kept \cup {customShapeTextureRef})
                data == ImageData(l.src)
            IN  /\ Cardinality(kept) < MaxTextures
                /\ textures' = kept \cup {tex}
                /\ textureRef' = tex
                /\ texData' = data
                /\ drawCommandRef' = TRUE
                /\ mediaLoaded' = TRUE
                /\ last' = Handled("img.onload", l.src,
                                   IF mediaLoaded THEN << >>
                                   ELSE ReRenderEffect(TRUE, actualMediaType, reglRef,
                                                       TRUE, tex, data, settings))
    /\ UNCHANGED <<gpu, layout, component, mounted, renderTarget, src, settings,
                   customShapeUrl, actualMediaType, isVideo, reglRef, glRef,
                   customShapeTextureRef, animationFrameRef, videoRef, imageRef,
                   pending, uncaught>>

\* video.onloadedmetadata; the texture of the previous source is not destroyed
EffectVideoOnloadedmetadata(l) ==
    /\ component = "HalftoneEffect"
    /\ l \in loads /\ l.kind = "video" /\ Decodable(l)
    /\ loads' = loads \ {l}
    /\ IF ~LoadProceeds(reglRef)
       THEN /\ last' = Handled("video.onloadedmetadata", l.src, << >>)
            /\ UNCHANGED <<textures, textureRef, texData, drawCommandRef, mediaLoaded,
                           pending, animationFrameRef>>
       ELSE LET tex  == FreshId(textures \cup {textureRef, customShapeTextureRef})
                data == VideoFrame(l.src)
                loop == StartVideoRenderLoop(renderTarget, reglRef, TRUE, tex,
                                             textures \cup {tex}, data, l.src, l.cfg)
                id   == FreshId({f.id : f \in pending} \cup {animationFrameRef})
            IN  /\ Cardinality(textures) < MaxTextures
                /\ textures' = textures \cup {tex}
                /\ textureRef' = tex
                /\ texData' = loop.data
                /\ drawCommandRef' = TRUE
                /\ mediaLoaded' = TRUE
                /\ IF loop.raf
                   THEN /\ pending' = pending \cup {[id |-> id, video |-> l.src, cfg |-> l.cfg]}
                        /\ animationFrameRef' = id
                   ELSE UNCHANGED <<pending, animationFrameRef>>
                /\ last' = Handled("video.onloadedmetadata", l.src,
                                   << Op("upload", l.cfg, data) >> \o loop.ops \o
                                   (IF mediaLoaded THEN << >>
                                    ELSE ReRenderEffect(TRUE, actualMediaType, reglRef,
                                                        TRUE, tex, loop.data, settings)))
    /\ UNCHANGED <<gpu, layout, component, mounted, renderTarget, src, settings,
                   customShapeUrl, actualMediaType, isVideo, reglRef, glRef,
                   customShapeTextureRef, videoRef, imageRef, uncaught>>

\* img.onload of the custom shape
EffectShapeOnload(l) ==
    /\ component = "HalftoneEffect"
    /\ l \in loads /\ l.kind = "shape" /\ Decodable(l)
    /\ loads' = loads \ {l}
    /\ IF ~LoadProceeds(reglRef)
       THEN UNCHANGED <<textures, customShapeTextureRef>>
       ELSE LET kept == TryDestroy(textures, customShapeTextureRef).live
                tex  == FreshId(kept \cup {textureRef})
            IN  /\ Cardinality(kept) < MaxTextures
                /\ textures' = kept \cup {tex}
                /\ customShapeTextureRef' = tex
    /\ last' = Handled("shape.onload", l.src, << >>)
    /\ UNCHANGED <<gpu, layout, component, mounted, renderTarget, src, settings,
                   customShapeUrl, mediaLoaded, actualMediaType, isVideo, reglRef, glRef,
                   textureRef, drawCommandRef, animationFrameRef, videoRef, imageRef,
                   texData, pending, uncaught>>

\* img.onerror, video.onerror, onerror of the custom shape: console.error only
EffectOnerror(l) ==
    /\ component = "HalftoneEffect"
    /\ l \in loads
    /\ loads' = loads \ {l}
    /\ last' = Handled("onerror", l.src, << Op("error", l.cfg, NoData) >>)
    /\ UNCHANGED <<gpu, layout, component, mounted, renderTarget, src, settings,
                   customShapeUrl, mediaLoaded, actualMediaType, isVideo, reglRef, glRef,
                   textureRef, customShapeTextureRef, drawCommandRef, animationFrameRef,
                   videoRef, imageRef, textures, texData, pending, uncaught>>

----------------------------------------------------------------------------
\* HalftoneEffect: the animation-frame callback `render` of a video loop

EffectTick(f) ==
    /\ component = "HalftoneEffect"
    /\ f \in pending
    /\ LET rest == pending \ {f}
           r    == Render(reglRef, drawCommandRef, textureRef, textures, texData,
                          f.video, f.cfg)
           id   == FreshId({g.id : g \in rest} \cup ({animationFrameRef} \ {f.id}))
       IN  /\ texData' = r.data
           /\ pending' = IF r.raf THEN rest \cup {[id |-> id, video |-> f.video, cfg |-> f.cfg]}
                         ELSE rest
           /\ animationFrameRef' = IF r.raf THEN id ELSE animationFrameRef
           /\ last' = Handled("tick", f.video, r.ops)
    /\ UNCHANGED <<gpu, layout, component, mounted, renderTarget, src, settings,
                   customShapeUrl, mediaLoaded, actualMediaType, isVideo, reglRef, glRef,
                   textureRef, customShapeTextureRef, drawCommandRef, videoRef, imageRef,
                   textures, loads, uncaught>>

----------------------------------------------------------------------------
\* HalftoneEffect: unmount.  The cleanups run in the order of their effects:
\* "Initialize REGL", "Load media", "Load custom shape texture".

\* cleanup of "Initialize REGL": the explicit destroys, then regl.destroy(),
\* which releases every resource of the context
ReglCleanup(live, tex, shape) ==
    LET d1 == TryDestroy(live, tex)
        d2 == TryDestroy(d1.live, shape)
    IN  [live |-> {}, threw |-> d1.threw \/ d2.threw]

EffectTeardown ==
    /\ component = "HalftoneEffect"
    /\ LET c1 == ReglCleanup(textures, textureRef, customShapeTextureRef)
           \* cleanup of the custom shape effect, there when the url was set
           c3 == IF customShapeUrl # NoSrc
                 THEN TryDestroy(c1.live, customShapeTextureRef)
                 ELSE [live |-> c1.live, threw |-> FALSE]
       IN  /\ textures' = c3.live
           /\ uncaught' = (uncaught \/ c1.threw \/ c3.threw)
    /\ customShapeTextureRef' = IF customShapeUrl # NoSrc THEN Null ELSE customShapeTextureRef
    /\ pending' = CancelAnimationFrame(pending, animationFrameRef)
    \* cleanup of the load effect, there when src was set
    /\ animationFrameRef' = IF src # NoSrc THEN Null ELSE animationFrameRef
    /\ reglRef' = FALSE
    /\ mounted' = FALSE
    /\ last' = Handled(IF mounted THEN "teardown" ELSE "teardown again", NoSrc, << >>)
    /\ UNCHANGED <<gpu, layout, component, renderTarget, src, settings, customShapeUrl,
                   mediaLoaded, actualMediaType, isVideo, glRef, textureRef,
                   drawCommandRef, videoRef, imageRef, texData, loads>>

----------------------------------------------------------------------------
\* Halftone (src/Halftone.tsx): pure parts

\* isVideoSource of the load effect
IsVideoSource(s) == \E i \in DOMAIN s : s[i] \in videoExtensions

\* renderFrame of a render whose isVideo is isVid and settings are cfg: the
\* texture is filled from the media element, then drawn
HalftoneRenderFrame(isVid, vref, iref, data, cfg) ==
    LET mediaElement == IF isVid THEN vref ELSE iref
        d == IF isVid THEN VideoFrame(vref) ELSE ImageData(iref)
    IN  IF mediaElement = NoSrc
        THEN [ops |-> << >>, data |-> data, raf |-> FALSE]
        ELSE [ops  |-> << Op("upload", cfg, d), Op("eval", cfg, d) >>
                       \o (IF isVid THEN << Op("raf", cfg, NoData) >> ELSE << >>),
              data |-> d,
              raf  |-> isVid]

\* body of the render effect
HalftoneRenderEffect(gl, tex, loaded, isVid, vref, iref, data, cfg) ==
    IF ~gl \/ tex = Null \/ ~loaded
    THEN [ops |-> << >>, data |-> data, raf |-> FALSE]
    ELSE HalftoneRenderFrame(isVid, vref, iref, data, cfg)

\* The render effect runs again: the cleanup of its previous run (there when
\* that run got past its guard) cancels the request of animationFrameRef,
\* then the body runs in a render with the state and props given.
HalftoneRerun(loaded, isVid, vref, iref, cfg, h, s) ==
    LET kept == IF glRef /\ mediaLoaded /\ animationFrameRef # Null
                THEN CancelAnimationFrame(pending, animationFrameRef) ELSE pending
        r    == HalftoneRenderEffect(glRef, textureRef, loaded, isVid, vref, iref,
                                     texData, cfg)
        id   == FreshId({f.id : f \in kept})
    IN  /\ texData' = r.data
        /\ pending' = IF r.raf THEN kept \cup {[id |-> id, video |-> NoSrc, cfg |-> cfg]}
                      ELSE kept
        /\ animationFrameRef' = IF r.raf THEN id ELSE animationFrameRef
        /\ last' = Handled(h, s, r.ops)

----------------------------------------------------------------------------
\* Halftone: the state after the first commit.  Without WebGL the
\* initialisation returns early: no context, no texture, no cleanup.

HalftoneInit ==
    /\ Gpu0 /\ Layout0
    /\ component = "Halftone"
    /\ mounted = TRUE
    /\ renderTarget = "preview"
    /\ src \in Srcs
    /\ settings = DefaultSettings
    /\ customShapeUrl = NoSrc
    /\ mediaLoaded = FALSE
    /\ actualMediaType = "image"
    /\ isVideo = FALSE
    /\ reglRef = FALSE
    /\ glRef \in BOOLEAN
    /\ textureRef = (IF glRef THEN 1 ELSE Null)
    /\ customShapeTextureRef = Null
    /\ drawCommandRef = FALSE
    /\ animationFrameRef = Null
    /\ videoRef = NoSrc
    /\ imageRef = NoSrc
    /\ textures = (IF glRef THEN {1} ELSE {})
    /\ texData = NoData
    /\ loads = {NewLoad(IF IsVideoSource(src) THEN "video" ELSE "image", src, settings)}
    /\ pending = {}
    /\ uncaught = FALSE
    /\ last = Handled("mount", NoSrc, << >>)

----------------------------------------------------------------------------
\* Halftone: props change

\* image or video changes: the load effect resets the state and cancels the
\* request; the render that follows runs the render effect, whose guard
\* stops it.
HalftoneSetSrc(s) ==
    /\ component = "Halftone" /\ mounted
    /\ s # src
    /\ LET new == NewLoad(IF IsVideoSource(s) THEN "video" ELSE "image", s, settings)
       IN  /\ Cardinality(loads) < MaxInFlight
           /\ new \notin loads
           /\ loads' = loads \cup {new}
    /\ src' = s
    /\ mediaLoaded' = FALSE
    /\ isVideo' = FALSE
    /\ pending' = CancelAnimationFrame(pending, animationFrameRef)
    /\ animationFrameRef' = Null
    /\ last' = Handled("setSrc", s, << >>)
    /\ UNCHANGED <<gpu, layout, component, mounted, renderTarget, settings, customShapeUrl,
                   actualMediaType, reglRef, glRef, textureRef, customShapeTextureRef,
                   drawCommandRef, videoRef, imageRef, textures, texData, uncaught>>

\* a halftone setting changes: the render effect runs again
HalftoneSetSettings(cfg) ==
    /\ component = "Halftone" /\ mounted
    /\ cfg # settings
    /\ settings' = cfg
    /\ HalftoneRerun(mediaLoaded, isVideo, videoRef, imageRef, cfg, "setSettings", NoSrc)
    /\ UNCHANGED <<gpu, layout, component, mounted, renderTarget, src, customShapeUrl, mediaLoaded,
                   actualMediaType, isVideo, reglRef, glRef, textureRef,
                   customShapeTextureRef, drawCommandRef, videoRef, imageRef, textures,
                   loads, uncaught>>

----------------------------------------------------------------------------
\* Halftone: events of the media elements.  The handlers have no guard for
\* the unmounted component; the state they set is dropped after the unmount.

\* video.onloadedmetadata.  The render effect runs again when mediaLoaded,
\* isVideo or the canvas size (the media dimensions, without width and height
\* props) changed.
HalftoneVideoOnloadedmetadata(l, resized) ==
    /\ component = "Halftone"
    /\ l \in loads /\ l.kind = "video"
    /\ loads' = loads \ {l}
    /\ videoRef' = l.src
    /\ IF mounted
       THEN /\ mediaLoaded' = TRUE
            /\ isVideo' = TRUE
            /\ IF ~mediaLoaded \/ ~isVideo \/ resized
               THEN HalftoneRerun(TRUE, TRUE, l.src, imageRef, settings,
                                  "video.onloadedmetadata", l.src)
               ELSE /\ last' = Handled("video.onloadedmetadata", l.src, << >>)
                    /\ UNCHANGED <<texData, pending, animationFrameRef>>
       ELSE /\ last' = Handled("video.onloadedmetadata", l.src, << >>)
            /\ UNCHANGED <<mediaLoaded, isVideo, texData, pending, animationFrameRef>>
    /\ UNCHANGED <<gpu, layout, component, mounted, renderTarget, src, settings, customShapeUrl,
                   actualMediaType, reglRef, glRef, textureRef, customShapeTextureRef,
                   drawCommandRef, imageRef, textures, uncaught>>

\* img.onload
HalftoneImgOnload(l, resized) ==
    /\ component = "Halftone"
    /\ l \in loads /\ l.kind = "image"
    /\ loads' = loads \ {l}
    /\ imageRef' = l.src
    /\ IF mounted
       THEN /\ mediaLoaded' = TRUE
            /\ isVideo' = FALSE
            /\ IF ~mediaLoaded \/ isVideo \/ resized
               THEN HalftoneRerun(TRUE, FALSE, videoRef, l.src, settings,
                                  "img.onload", l.src)
               ELSE /\ last' = Handled("img.onload", l.src, << >>)
                    /\ UNCHANGED <<texData, pending, animationFrameRef>>
       ELSE /\ last' = Handled("img.onload", l.src, << >>)
            /\ UNCHANGED <<mediaLoaded, isVideo, texData, pending, animationFrameRef>>
    /\ UNCHANGED <<gpu, layout, component, mounted, renderTarget, src, settings, customShapeUrl,
                   actualMediaType, reglRef, glRef, textureRef, customShapeTextureRef,
                   drawCommandRef, videoRef, textures, uncaught>>

\* video.onerror, img.onerror: console.error only
HalftoneOnerror(l) ==
    /\ component = "Halftone"
    /\ l \in loads
    /\ loads' = loads \ {l}
    /\ last' = Handled("onerror", l.src, << Op("error", l.cfg, NoData) >>)
    /\ UNCHANGED <<gpu, layout, component, mounted, renderTarget, src, settings, customShapeUrl,
                   mediaLoaded, actualMediaType, isVideo, reglRef, glRef, textureRef,
                   customShapeTextureRef, drawCommandRef, animationFrameRef, videoRef,
                   imageRef, textures, texData, pending, uncaught>>

----------------------------------------------------------------------------
\* Halftone: the animation-frame callback, renderFrame of a render whose
\* isVideo is true; it reads videoRef when it runs

HalftoneTick(f) ==
    /\ component = "Halftone"
    /\ f \in pending
    /\ LET rest == pending \ {f}
           r    == HalftoneRenderFrame(TRUE, videoRef, imageRef, texData, f.cfg)
           id   == FreshId({g.id : g \in rest} \cup ({animationFrameRef} \ {f.id}))
       IN  /\ texData' = r.data
           /\ pending' = IF r.raf THEN rest \cup {[id |-> id, video |-> NoSrc, cfg |-> f.cfg]}
                         ELSE rest
           /\ animationFrameRef' = IF r.raf THEN id ELSE animationFrameRef
           /\ last' = Handled("tick", videoRef, r.ops)
    /\ UNCHANGED <<gpu, layout, component, mounted, renderTarget, src, settings, customShapeUrl,
                   mediaLoaded, actualMediaType, isVideo, reglRef, glRef, textureRef,
                   customShapeTextureRef, drawCommandRef, videoRef, imageRef, textures,
                   loads, uncaught>>

----------------------------------------------------------------------------
\* Halftone: unmount.  The cleanup of "Initialize WebGL" (there when the
\* initialisation got to its end) cancels the request and deletes the texture
\* and the program; the cleanup of the render effect cancels the request.
\* gl.deleteTexture of a deleted texture does nothing.

HalftoneTeardown ==
    /\ component = "Halftone"
    /\ IF glRef
       THEN /\ pending' = CancelAnimationFrame(pending, animationFrameRef)
            /\ textures' = textures \ {textureRef}
       ELSE UNCHANGED <<pending, textures>>
    /\ mounted' = FALSE
    /\ last' = Handled(IF mounted THEN "teardown" ELSE "teardown again", NoSrc, << >>)
    /\ UNCHANGED <<gpu, layout, component, renderTarget, src, settings, customShapeUrl, mediaLoaded,
                   actualMediaType, isVideo, reglRef, glRef, textureRef,
                   customShapeTextureRef, drawCommandRef, animationFrameRef, videoRef,
                   imageRef, texData, loads, uncaught>>

----------------------------------------------------------------------------
\* Environment

\* the host moves the mounted component to another render target
SetRenderTarget(target) ==
    /\ component = "HalftoneEffect" /\ mounted
    /\ target # renderTarget
    /\ renderTarget' = target
    /\ UNCHANGED <<gpu, layout, component, mounted, src, settings, customShapeUrl,
                   mediaLoaded, actualMediaType, isVideo, reglRef, glRef, textureRef,
                   customShapeTextureRef, drawCommandRef, animationFrameRef, videoRef,
                   imageRef, textures, texData, loads, pending, uncaught, last>>

----------------------------------------------------------------------------
\* The frame driver of either component

Init == EffectInit \/ HalftoneInit

Next ==
    \/ \E s \in Srcs : EffectSetSrc(s)
    \/ \E cfg \in Settings : EffectSetSettings(cfg)
    \/ \E l \in loads : EffectImgOnload(l)
    \/ \E l \in loads : EffectVideoOnloadedmetadata(l)
    \/ \E l \in loads : EffectOnerror(l)
    \/ \E f \in pending : EffectTick(f)
    \/ EffectTeardown
    \/ \E target \in RenderTargets : SetRenderTarget(target)
    \/ \E s \in Srcs : HalftoneSetSrc(s)
    \/ \E cfg \in Settings : HalftoneSetSettings(cfg)
    \/ \E l \in loads, resized \in BOOLEAN : HalftoneVideoOnloadedmetadata(l, resized)
    \/ \E l \in loads, resized \in BOOLEAN : HalftoneImgOnload(l, resized)
    \/ \E l \in loads : HalftoneOnerror(l)
    \/ \E f \in pending : HalftoneTick(f)
    \/ HalftoneTeardown

Spec == Init /\ [][Next]_vars

\* HalftoneEffect with its custom shape, under fixed settings and render target
ShapeNext ==
    \/ \E s \in Srcs : EffectSetSrc(s)
    \/ \E u \in ShapeUrls \cup {NoSrc} : EffectSetCustomShapeUrl(u)
    \/ \E l \in loads : EffectImgOnload(l)
    \/ \E l \in loads : EffectVideoOnloadedmetadata(l)
    \/ \E l \in loads : EffectShapeOnload(l)
    \/ \E l \in loads : EffectOnerror(l)
    \/ \E f \in pending : EffectTick(f)
    \/ EffectTeardown

ShapeSpec == EffectInit /\ [][ShapeNext]_vars

\* The browser runs every animation-frame callback that stays requested and
\* every media element whose load is in flight fires its load or its error
\* event; the changes of props and the unmount are up to the host.
Ticks == \E f \in pending : EffectTick(f) \/ HalftoneTick(f)

MediaEvents ==
    \E l \in loads :
        \/ EffectImgOnload(l) \/ EffectVideoOnloadedmetadata(l) \/ EffectOnerror(l)
        \/ \E resized \in BOOLEAN : HalftoneVideoOnloadedmetadata(l, resized)
        \/ \E resized \in BOOLEAN : HalftoneImgOnload(l, resized)
        \/ HalftoneOnerror(l)

LiveSpec == Init /\ [][Next]_vars /\ WF_vars(Ticks) /\ WF_vars(MediaEvents)

----------------------------------------------------------------------------
\* The Sampler: the fragment shaders (src/src/shaders/halftone.ts for
\* HalftoneEffect, fragmentShaderSource of src/Halftone.tsx for Halftone)
\*
\* Floats are fixed-point numbers: lengths in units of 1/Fix pixel, factors
\* (brightness, shape, cos, sin, random) in thousandths, colour channels in
\* 0..255.  Pixel (x, y) is shaded at its centre (x + 0.5, y + 0.5).

Fix == 10

Vec(x, y) == <<x, y>>
Clamp(x, lo, hi) == IF x < lo THEN lo ELSE IF x > hi THEN hi ELSE x
Abs(x) == IF x < 0 THEN 0 - x ELSE x
Max(a, b) == IF a > b THEN a ELSE b

\* cos and sin of an angle in degrees, in thousandths: exact at the multiples
\* of 90, linear in between
Cos(deg) ==
    LET a == deg % 360
    IN  IF a <= 90 THEN 1000 - (1000 * a) \div 90
        ELSE IF a <= 180 THEN 0 - (1000 * (a - 90)) \div 90
        ELSE IF a <= 270 THEN (1000 * (a - 180)) \div 90 - 1000
        ELSE (1000 * (a - 270)) \div 90

Sin(deg) == Cos(deg + 270)

\* the rotation that turns the same way for a and -a
rotate2DAbs(deg, v) ==
    LET c == Cos(Abs(deg))
        s == Sin(Abs(deg))
    IN  Vec((c * v[1] + s * v[2]) \div 1000, (c * v[2] - s * v[1]) \div 1000)

\* rotate2D(a) * v, a in degrees: mat2(c, -s, s, c) has the columns (c, -s), (s, c)
rotate2D(deg, v) ==
    LET c == Cos(deg)
        s == Sin(deg)
    IN  Vec((c * v[1] + s * v[2]) \div 1000, (c * v[2] - s * v[1]) \div 1000)

\* length(v), rounded down
length(v) ==
    LET n == v[1] * v[1] + v[2] * v[2]
    IN  CHOOSE r \in 0..(Abs(v[1]) + Abs(v[2])) : r * r <= n /\ n < (r + 1) * (r + 1)

\* random(st) in thousandths: a fixed hash of the cell index, for
\* fract(sin(dot(st, vec2(12.9898, 78.233))) * 43758.5453123)
random(st) == (((12989 * st[1] + 78233 * st[2]) % 1000) * 43758) % 1000

\* What GLSL leaves unspecified (smoothstep with edge0 >= edge1, a division
\* by zero) differs between implementations: "ieee" computes the reference
\* formula and IEEE infinities, "zero" and "one" yield that constant.
GlslImplementations == {"ieee", "zero", "one"}

\* smoothstep(edge0, edge1, x) in thousandths
smoothstep(impl, edge0, edge1, x) ==
    LET t == IF edge0 < edge1
             THEN Clamp(((x - edge0) * Fix) \div (edge1 - edge0), 0, Fix)
             ELSE IF edge0 > edge1
             THEN Clamp(((edge0 - x) * Fix) \div (edge0 - edge1), 0, Fix)
             ELSE 0
        hermite == (t * t * (3 * Fix - 2 * t) * 1000) \div (Fix * Fix * Fix)
    IN  IF edge0 < edge1 \/ impl = "ieee" THEN hermite
        ELSE IF impl = "zero" THEN 0 ELSE 1000

circle(impl, p, radius) ==
    smoothstep(impl, radius + Fix \div 2, radius - Fix \div 2, length(p))

rectangle(impl, p, size) ==
    smoothstep(impl, Fix \div 2, 0 - Fix \div 2, Max(Abs(p[1]) - size, Abs(p[2]) - size))

line(impl, p, width) ==
    smoothstep(impl, width + Fix \div 2, width - Fix \div 2, Abs(p[2]))

\* getBrightness(color) in thousandths
getBrightness(color) == (299 * color[1] + 587 * color[2] + 114 * color[3]) \div 255

\* mix(a, b, s) of two colours, s in thousandths
mix(a, b, s) == [i \in 1..3 |-> (a[i] * (1000 - s) + b[i] * s) \div 1000]

\* the texel at p, the coordinate clamped to the edge
texelFetch(tex, p) ==
    tex.texels[Vec(Clamp(p[1], 0, tex.w - 1), Clamp(p[2], 0, tex.h - 1))]

\* mix of two texels, s in thousandths
mixTexel(a, b, s) ==
    [rgb |-> mix(a.rgb, b.rgb, s), a |-> (a.a * (1000 - s) + b.a * s) \div 1000]

\* texture2D(tex, uv), uv = num / den per axis. Filter "nearest": the texel
\* the coordinate falls into. Filter "linear": the four texels around the
\* coordinate, weighted by the distance to their centres.
texture2D(tex, num, den) ==
    IF tex.filter = "nearest"
    THEN texelFetch(tex, Vec((num[1] * tex.w) \div den[1], (num[2] * tex.h) \div den[2]))
    ELSE LET tx == (num[1] * tex.w * 1000) \div den[1] - 500
             ty == (num[2] * tex.h * 1000) \div den[2] - 500
             i  == tx \div 1000
             j  == ty \div 1000
             row(k) == mixTexel(texelFetch(tex, Vec(i, k)), texelFetch(tex, Vec(i + 1, k)),
                                tx % 1000)
         IN  mixTexel(row(j), row(j + 1), ty % 1000)

\* resolution and resolution * 0.5, in 1/Fix pixels
Resolution(u) == Vec(Fix * u.resolution[1], Fix * u.resolution[2])
Center(u)     == Vec((Fix * u.resolution[1]) \div 2, (Fix * u.resolution[2]) \div 2)

\* coord = uv * resolution of pixel px, rotated about the centre
Rotated(u, px) ==
    LET r0 == rotate2D(u.angle, Vec(Fix * px[1] + Fix \div 2 - Center(u)[1],
                                    Fix * px[2] + Fix \div 2 - Center(u)[2]))
    IN  Vec(r0[1] + Center(u)[1], r0[2] + Center(u)[2])

\* every cell offset by half a spacing along x
PatternOffsetHalf(u, rotated) == Vec((Fix * u.spacing) \div 2, 0)

\* patternOffset of the cell that holds the rotated coordinate
PatternOffset(u, rotated) ==
    LET sp        == Fix * u.spacing
        gridIndex == Vec(rotated[1] \div sp, rotated[2] \div sp)
        toCenter  == Vec(rotated[1] - Center(u)[1], rotated[2] - Center(u)[2])
        spokes    == IF u.pattern = 4 THEN 7 ELSE IF u.pattern = 5 THEN 9 ELSE 5
        \* dist * spokes / resolution.x, from radians to degrees
        radialRotation == (length(toCenter) * spokes * 180 * 1000)
                              \div (Fix * u.resolution[1] * 3142)
    IN  IF u.pattern = 1
        THEN Vec(IF gridIndex[2] % 2 = 1 THEN sp \div 2 ELSE 0, 0)
        ELSE IF u.pattern = 2
        THEN Vec(((random(gridIndex) - 500) * sp * 3) \div 10000,
                 ((random(Vec(gridIndex[1] + 1, gridIndex[2])) - 500) * sp * 3) \div 10000)
        ELSE IF u.pattern \in {3, 4, 5}
        THEN Vec((Cos(radialRotation) * sp) \div 10000,
                 (Sin(radialRotation) * sp) \div 10000)
        ELSE Vec(0, 0)

\* the grid cell of offsetRotated: cellCenter, and the centre of the cell
\* rotated back (sampleUV = unrotatedCellCenter / resolution)
GridCell(u, offsetRotated) ==
    LET sp == Fix * u.spacing
        \* gridPos = mod(offsetRotated, spacing); cellCenter = gridPos - spacing * 0.5
        cellCenter == Vec((offsetRotated[1] % sp) - (sp \div 2),
                          (offsetRotated[2] % sp) - (sp \div 2))
        u0 == rotate2D(0 - u.angle,
                       Vec(offsetRotated[1] - cellCenter[1] - Center(u)[1],
                           offsetRotated[2] - cellCenter[2] - Center(u)[2]))
    IN  [cellCenter |-> cellCenter,
         unrotatedCellCenter |-> Vec(u0[1] + Center(u)[1], u0[2] + Center(u)[2]),
         resolution |-> Resolution(u)]

\* main() up to sampleUV, the same in both shaders: the cell of pixel px;
\* offsetRotated = rotated - patternOffset
Cell(u, px) ==
    LET rotated       == Rotated(u, px)
        patternOffset == PatternOffset(u, rotated)
    IN  GridCell(u, Vec(rotated[1] - patternOffset[1], rotated[2] - patternOffset[2]))

\* the compositing with cmyk drawn from the source colour
CompositeCmykSampled(halftoneType, backgroundColor, dotColor, duotoneColor2, sourceColor, sizeFactor, shape) ==
    IF halftoneType = 0 THEN mix(backgroundColor, dotColor, shape)
    ELSE IF halftoneType = 1
    THEN mix(backgroundColor, mix(dotColor, duotoneColor2, sizeFactor), shape)
    ELSE mix(backgroundColor, sourceColor, shape)

\* duotone interpolating from duotoneColor2 towards dotColor
CompositeDuotoneSwapped(halftoneType, backgroundColor, dotColor, duotoneColor2, sourceColor, sizeFactor, shape) ==
    IF halftoneType = 1
    THEN mix(backgroundColor, mix(duotoneColor2, dotColor, sizeFactor), shape)
    ELSE IF halftoneType = 2 THEN mix(backgroundColor, sourceColor, shape)
    ELSE mix(backgroundColor, dotColor, shape)

\* "Determine final color based on halftone type": the standard rendering
Composite(halftoneType, backgroundColor, dotColor, duotoneColor2, sourceColor, sizeFactor, shape) ==
    IF halftoneType = 0 THEN mix(backgroundColor, dotColor, shape)
    ELSE IF halftoneType = 1
    THEN mix(backgroundColor, mix(dotColor, duotoneColor2, sizeFactor), shape)
    ELSE IF halftoneType = 2 THEN mix(backgroundColor, sourceColor, shape)
    ELSE mix(backgroundColor, dotColor, shape)

\* the dot size growing with the brightness
DotSizeBright(dotSize, brightness) == (Fix * dotSize * brightness) \div 1000

\* sizeFactor = 1.0 - brightness; currentDotSize = dotSize * sizeFactor
DotSize(dotSize, brightness) == (Fix * dotSize * (1000 - brightness)) \div 1000

\* what the shader computed for a pixel
Shaded(c, finalColor, shape, currentDotSize, brightness) ==
    [gl_FragColor |-> finalColor, shape |-> shape, currentDotSize |-> currentDotSize,
     brightness |-> brightness, cellCenter |-> c.cellCenter,
     unrotatedCellCenter |-> c.unrotatedCellCenter, resolution |-> c.resolution]

\* the custom image of a dot: customShapeTexture at imageUV =
\* (cellCenter / currentDotSize) * 0.5 + 0.5 where that lies in [0, 1], mixed
\* over the background by its alpha; with currentDotSize = 0 the division
\* is unspecified
CustomDot(impl, shapeTex, cellCenter, currentDotSize, backgroundColor) ==
    LET inside == IF currentDotSize = 0 THEN impl # "ieee"
                  ELSE \A i \in 1..2 : Abs(cellCenter[i]) <= currentDotSize
        imageUV == IF currentDotSize = 0
                   THEN (IF impl = "one" THEN Vec(2, 2) ELSE Vec(1, 1))
                   ELSE Vec(cellCenter[1] + currentDotSize, cellCenter[2] + currentDotSize)
        imageDen == IF currentDotSize = 0 THEN Vec(2, 2)
                    ELSE Vec(2 * currentDotSize, 2 * currentDotSize)
        custom == texture2D(shapeTex, imageUV, imageDen)
    IN  IF inside THEN mix(backgroundColor, custom.rgb, custom.a) ELSE backgroundColor

\* the shape of halftone.ts: none for dotShape 3
Shape(impl, dotShape, cellCenter, currentDotSize) ==
    IF dotShape = 0 THEN circle(impl, cellCenter, currentDotSize \div 2)
    ELSE IF dotShape = 1 THEN rectangle(impl, cellCenter, currentDotSize \div 2)
    ELSE IF dotShape = 2 THEN line(impl, cellCenter, currentDotSize \div 5)
    ELSE 0

\* the custom image of a dot tinted half way towards dotColor
FragmentSampledTinted(impl, u, shapeTex, c, sourceColor) ==
    LET brightness     == getBrightness(sourceColor)
        currentDotSize == DotSize(u.dotSize, brightness)
        shape          == Shape(impl, u.dotShape, c.cellCenter, currentDotSize)
    IN  Shaded(c,
               IF u.dotShape = 3 /\ u.hasCustomShape = 1
               THEN mix(CustomDot(impl, shapeTex, c.cellCenter, currentDotSize, <<255, 255, 255>>),
                        u.dotColor, 500)
               ELSE Composite(u.halftoneType, <<255, 255, 255>>, u.dotColor, u.duotoneColor2,
                              sourceColor, 1000 - brightness, shape),
               shape, currentDotSize, brightness)

\* main() of halftone.ts from the sampled colour on
FragmentSampled(impl, u, shapeTex, c, sourceColor) ==
    LET brightness     == getBrightness(sourceColor)
        sizeFactor     == 1000 - brightness
        currentDotSize == DotSize(u.dotSize, brightness)
        shape          == Shape(impl, u.dotShape, c.cellCenter, currentDotSize)
        backgroundColor == <<255, 255, 255>>
    IN  Shaded(c,
               IF u.dotShape = 3 /\ u.hasCustomShape = 1
               THEN CustomDot(impl, shapeTex, c.cellCenter, currentDotSize, backgroundColor)
               ELSE Composite(u.halftoneType, backgroundColor, u.dotColor, u.duotoneColor2,
                              sourceColor, sizeFactor, shape),
               shape, currentDotSize, brightness)

\* main() of fragmentShader of halftone.ts for pixel px
Fragment(impl, u, tex, shapeTex, px) ==
    LET c == Cell(u, px)
    IN  FragmentSampled(impl, u, shapeTex, c,
                        texture2D(tex, c.unrotatedCellCenter, c.resolution).rgb)

\* the shape of Halftone.tsx: the custom shape is drawn as a circle
HalftoneShape(impl, dotShape, cellCenter, currentDotSize) ==
    IF dotShape = 1 THEN rectangle(impl, cellCenter, currentDotSize \div 2)
    ELSE IF dotShape = 2 THEN line(impl, cellCenter, currentDotSize \div 5)
    ELSE circle(impl, cellCenter, currentDotSize \div 2)

\* main() of fragmentShaderSource of Halftone.tsx from the sampled colour on:
\* backgroundColor is a uniform
HalftoneFragmentSampled(impl, u, c, sourceColor) ==
    LET brightness     == getBrightness(sourceColor)
        sizeFactor     == 1000 - brightness
        currentDotSize == DotSize(u.dotSize, brightness)
        shape          == HalftoneShape(impl, u.dotShape, c.cellCenter, currentDotSize)
    IN  Shaded(c,
               Composite(u.halftoneType, u.backgroundColor, u.dotColor, u.duotoneColor2,
                         sourceColor, sizeFactor, shape),
               shape, currentDotSize, brightness)

\* main() of fragmentShaderSource of Halftone.tsx for pixel px
HalftoneFragment(impl, u, tex, px) ==
    LET c == Cell(u, px)
    IN  HalftoneFragmentSampled(impl, u, c,
                                texture2D(tex, c.unrotatedCellCenter, c.resolution).rgb)

----------------------------------------------------------------------------
\* The Sampler run by a draw call over the whole output buffer

ResW == 4       \* width of the output buffer, in pixels
ResH == 2       \* height of the output buffer, in pixels

Pixels == (0..(ResW - 1)) \X (0..(ResH - 1))

White == <<255, 255, 255>>
Black == <<0, 0, 0>>
Red   == <<255, 0, 0>>
Blue  == <<0, 0, 255>>
NoColour == << >>

\* source textures of two texels side by side, each white or black
Texel(rgb) == [rgb |-> rgb, a |-> 1000]
\* the filter of the source texture: regl's default for the image texture of
\* HalftoneEffect, LINEAR in Halftone
Filter(comp) == IF comp = "HalftoneEffect" THEN "nearest" ELSE "linear"

Grids(comp) == {[w |-> 2, h |-> 1, filter |-> Filter(comp), texels |-> t] :
                   t \in [{Vec(0, 0), Vec(1, 0)} -> {Texel(White), Texel(Black)}]}

\* the custom shape: one opaque blue texel
ShapeTexture == [w |-> 1, h |-> 1, filter |-> "nearest", texels |-> [p \in {Vec(0, 0)} |-> Texel(Blue)]]

Angles   == {0, 90, 180, 270}
Spacings == {3, 4}

\* the uniforms renderFrame sets, for either component
Uniforms ==
    [resolution : {Vec(ResW, ResH)}, dotSize : {4}, spacing : Spacings, angle : Angles,
     dotColor : {Black}, duotoneColor2 : {Red}, backgroundColor : {White},
     halftoneType : 0..3, dotShape : 0..3, pattern : 0..5, hasCustomShape : {0, 1}]


\* the uniform hasCustomShape always set
HasCustomShapeAlways(shapeRef) == 1

\* hasCustomShape: () => (customShapeTextureRef.current ? 1 : 0)
HasCustomShape(shapeRef) == IF shapeRef # Null THEN 1 ELSE 0

\* the fragment of pixel px in a draw call of component comp; for
\* HalftoneEffect customShapeTexture is customShapeTextureRef.current ||
\* textureRef.current!
Shade(comp, shapeRef, impl, u, tex, px) ==
    IF comp = "HalftoneEffect"
    THEN Fragment(impl, u, tex, IF shapeRef # Null THEN ShapeTexture ELSE tex, px)
    ELSE HalftoneFragment(impl, u, tex, px)

\* the frame the shader yields: the colour of every pixel
Frame(comp, shapeRef, impl, u, tex) ==
    [px \in Pixels |-> Shade(comp, shapeRef, impl, u, tex, px).gl_FragColor]

\* the buffer is written with blending accumulating over what it held
WritePixelBlended(prev, colour) ==
    IF prev = NoColour THEN colour ELSE mix(prev, colour, 500)

\* clear, then the draw call with blending disabled: the fragment's opaque
\* colour replaces what the buffer held
WritePixel(prev, colour) == colour

\* the frame driver's variables when only the Sampler, the props or the
\* canvas of component comp are looked at
Driver0(comp, shapeRef) ==
    /\ component = comp
    /\ mounted = TRUE
    /\ renderTarget = "preview"
    /\ src = NoSrc
    /\ settings = DefaultSettings
    /\ customShapeUrl = NoSrc
    /\ mediaLoaded = FALSE
    /\ actualMediaType = "image"
    /\ isVideo = FALSE
    /\ reglRef = FALSE
    /\ glRef = FALSE
    /\ textureRef = Null
    /\ customShapeTextureRef = shapeRef
    /\ drawCommandRef = FALSE
    /\ animationFrameRef = Null
    /\ videoRef = NoSrc
    /\ imageRef = NoSrc
    /\ textures = {}
    /\ texData = NoData
    /\ loads = {}
    /\ pending = {}
    /\ uncaught = FALSE
    /\ last = Handled("mount", NoSrc, << >>)

\* every setting of the uniforms, on every implementation, over every grid
SamplerInit ==
    /\ \/ \E shapeRef \in {Null, 1} : Driver0("HalftoneEffect", shapeRef)
       \/ Driver0("Halftone", Null)
    /\ Layout0
    /\ glsl \in GlslImplementations
    /\ uniforms \in Uniforms
    /\ uniforms.hasCustomShape = HasCustomShape(customShapeTextureRef)
    /\ grid \in Grids(component)
    /\ buffer = [px \in Pixels |-> NoColour]
    /\ drawn = << >>

\* drawCommandRef.current({...}) / gl.drawArrays: every pixel is shaded.
\* drawn keeps what the shader computed for each pixel.
SamplerDraw ==
    LET frags == [px \in Pixels |-> Shade(component, customShapeTextureRef, glsl, uniforms, grid, px)]
    IN  /\ buffer' = [px \in Pixels |-> WritePixel(buffer[px], frags[px].gl_FragColor)]
        /\ drawn' = [uniforms |-> uniforms, grid |-> grid, frags |-> frags]
        /\ UNCHANGED <<driver, layout, glsl, uniforms, grid>>

\* the texture is filled from another image or video frame
SamplerUpload(g) ==
    /\ g # grid
    /\ grid' = g
    /\ UNCHANGED <<driver, layout, glsl, uniforms, buffer, drawn>>

\* one draw call per setting
SamplerNext == drawn = << >> /\ SamplerDraw

SamplerSpec == SamplerInit /\ [][SamplerNext]_vars

\* frames drawn one after the other over changing textures, on the regular
\* grid without rotation
FrameInit ==
    /\ SamplerInit
    /\ uniforms.pattern = 0 /\ uniforms.angle = 0 /\ uniforms.spacing = 3

FrameNext ==
    \/ SamplerDraw
    \/ \E g \in Grids(component) : SamplerUpload(g)

FrameSpec == FrameInit /\ [][FrameNext]_vars

----------------------------------------------------------------------------
\* The props of a render and what renderFrame makes of them

\* JavaScript values: numbers (NaN among them), undefined, functions
Num(n)    == [t |-> "number", nan |-> FALSE, n |-> n]
NaN       == [t |-> "number", nan |-> TRUE, n |-> 0]
Undefined == [t |-> "undefined", nan |-> FALSE, n |-> 0]
Function  == [t |-> "function", nan |-> FALSE, n |-> 0]

\* the keys every object literal inherits from Object.prototype
ObjectPrototypeKeys == {"constructor", "toString", "valueOf", "hasOwnProperty"}

typeMap    == [monochrome |-> 0, duotone |-> 1, sampled |-> 2, cmyk |-> 3]
shapeMap   == [circle |-> 0, rectangle |-> 1, line |-> 2, custom |-> 3]
patternMap == [k \in {"grid-regular", "grid-alternating", "grid-dither",
                      "radial-5", "radial-7", "radial-9"} |->
                  CASE k = "grid-regular" -> 0
                    [] k = "grid-alternating" -> 1
                    [] k = "grid-dither" -> 2
                    [] k = "radial-5" -> 3
                    [] k = "radial-7" -> 4
                    [] k = "radial-9" -> 5]

\* map[key] of an object literal
Get(map, key) ==
    IF key \in DOMAIN map THEN Num(map[key])
    ELSE IF key \in ObjectPrototypeKeys THEN Function
    ELSE Undefined

\* v || w
Or(v, w) ==
    IF v.t = "function" \/ (v.t = "number" /\ ~v.nan /\ v.n # 0) THEN v ELSE w

\* typeMap[type] || 0
CodeOrZero(map, key) == Or(Get(map, key), Num(0))

\* gl.uniform1i(location, v): v converted to a GLint
uniform1i(v) == IF v.t = "number" /\ ~v.nan THEN v.n ELSE 0

\* the builds of regl: dist/regl.js checks the type of a uniform,
\* dist/regl.unchecked.js does not
ReglBuilds == {"checked", "unchecked"}

\* a uniform of type int set from regl.prop: the value the shader gets, or
\* the error regl raises
ReglIntUniform(build, v) ==
    IF build = "checked" /\ v.t # "number"
    THEN [threw |-> TRUE, value |-> 0]
    ELSE [threw |-> FALSE, value |-> uniform1i(v)]

\* colour strings, character by character
HexDigit == [c \in {"0", "1", "2", "3", "4", "5", "6", "7", "8", "9",
                    "a", "b", "c", "d", "e", "f"} |->
                CASE c = "0" -> 0 [] c = "1" -> 1 [] c = "2" -> 2 [] c = "3" -> 3
                  [] c = "4" -> 4 [] c = "5" -> 5 [] c = "6" -> 6 [] c = "7" -> 7
                  [] c = "8" -> 8 [] c = "9" -> 9 [] c = "a" -> 10 [] c = "b" -> 11
                  [] c = "c" -> 12 [] c = "d" -> 13 [] c = "e" -> 14 [] c = "f" -> 15]

DigitsOf(radix) == {c \in DOMAIN HexDigit : HexDigit[c] < radix}

\* the first index from i on that holds no character of set (past the end
\* if there is none)
RunEnd(s, i, set) ==
    IF i > Len(s) THEN i
    ELSE CHOOSE j \in i..(Len(s) + 1) :
             /\ \A k \in i..(j - 1) : s[k] \in set
             /\ j = Len(s) + 1 \/ s[j] \notin set

RECURSIVE ValueOf(_, _)
ValueOf(s, radix) ==
    IF s = << >> THEN 0
    ELSE ValueOf(SubSeq(s, 1, Len(s) - 1), radix) * radix + HexDigit[s[Len(s)]]

\* parseInt(s, radix) of a string without sign, blanks or 0x: the value of
\* the longest prefix of digits, NaN if there is none
parseInt(s, radix) ==
    LET e == RunEnd(s, 1, DigitsOf(radix))
    IN  IF e = 1 THEN NaN ELSE Num(ValueOf(SubSeq(s, 1, e - 1), radix))

\* s.slice(a, b), 0 <= a <= b
slice(s, a, b) == SubSeq(s, a + 1, IF b < Len(s) THEN b ELSE Len(s))

\* /^#?([a-f\d]{2})([a-f\d]{2})([a-f\d]{2})$/i.exec(s): the three groups, or
\* << >> for null
HexMatch(s) ==
    LET body == IF s # << >> /\ s[1] = "#" THEN Tail(s) ELSE s
    IN  IF Len(body) = 6 /\ \A k \in 1..6 : body[k] \in DOMAIN HexDigit
        THEN <<SubSeq(body, 1, 2), SubSeq(body, 3, 4), SubSeq(body, 5, 6)>>
        ELSE << >>

\* s[p] is the character c
Lit(s, p, c) == p <= Len(s) /\ s[p] = c

\* the three groups (\d+),\s*(\d+),\s*(\d+) found at d1..e1, d2..e2 and
\* d3..e3, or << >> if one of them or a comma is missing
RgbGroups(s, d1, e1, d2, e2, d3, e3) ==
    IF e1 > d1 /\ Lit(s, e1, ",") /\ e2 > d2 /\ Lit(s, e2, ",") /\ e3 > d3
    THEN <<SubSeq(s, d1, e1 - 1), SubSeq(s, d2, e2 - 1), SubSeq(s, d3, e3 - 1)>>
    ELSE << >>

\* rgba?\( at index i: the index after the parenthesis, 0 if it is not there
RgbOpen(s, i) ==
    IF Lit(s, i, "r") /\ Lit(s, i + 1, "g") /\ Lit(s, i + 2, "b")
    THEN IF Lit(s, i + 3, "(") THEN i + 4
         ELSE IF Lit(s, i + 3, "a") /\ Lit(s, i + 4, "(") THEN i + 5
         ELSE 0
    ELSE 0

\* /rgba?\((\d+),\s*(\d+),\s*(\d+)/ matched at index i: the three groups, or
\* << >> if it does not match there
RgbMatchAt(s, i) ==
    LET d1 == RgbOpen(s, i)
        e1 == RunEnd(s, d1, DigitsOf(10))
        d2 == RunEnd(s, e1 + 1, {" "})
        e2 == RunEnd(s, d2, DigitsOf(10))
        d3 == RunEnd(s, e2 + 1, {" "})
        e3 == RunEnd(s, d3, DigitsOf(10))
    IN  IF RgbOpen(s, i) = 0 THEN << >> ELSE RgbGroups(s, d1, e1, d2, e2, d3, e3)

\* the regular expression is not anchored: the first index it matches at
RgbMatch(s) ==
    IF \A i \in 1..Len(s) : RgbMatchAt(s, i) = << >> THEN << >>
    ELSE RgbMatchAt(s, CHOOSE i \in 1..Len(s) :
                           /\ RgbMatchAt(s, i) # << >>
                           /\ \A k \in 1..(i - 1) : RgbMatchAt(s, k) = << >>)

\* a parsed colour: the components in 1/255 and the console.warn made
Parsed(r, g, b, warned) == [rgb |-> <<r, g, b>>, warned |-> warned]

\* the colour of the three groups of a match
ParsedGroups(match, radix) ==
    Parsed(parseInt(match[1], radix), parseInt(match[2], radix),
           parseInt(match[3], radix), FALSE)

\* parseColor of Halftone.tsx
parseColor(colorString) ==
    IF HexMatch(colorString) # << >> THEN ParsedGroups(HexMatch(colorString), 16)
    ELSE IF RgbMatch(colorString) # << >> THEN ParsedGroups(RgbMatch(colorString), 10)
    ELSE Parsed(Num(0), Num(0), Num(0), TRUE)

\* parseColor of renderFrame of HalftoneEffect
EffectParseColor(hex) ==
    Parsed(parseInt(slice(hex, 1, 3), 16), parseInt(slice(hex, 3, 5), 16),
           parseInt(slice(hex, 5, 7), 16), FALSE)

\* hexToRgb of the earlier Halftone (part_001)
hexToRgb(hex) ==
    IF HexMatch(hex) # << >> THEN ParsedGroups(HexMatch(hex), 16)
    ELSE Parsed(Num(0), Num(0), Num(0), FALSE)

\* the file extension of a URL: its last part
FileExtension(s) == IF s = << >> THEN "" ELSE s[Len(s)]

\* the detect effect of HalftoneEffect
ActualMediaType(mediaType, s) ==
    IF mediaType = "auto" THEN DetectMediaType(s) ELSE mediaType

\* isVideoSource of the load effect of Halftone: !!video || ...
HalftoneIsVideoSource(video, s) == video \/ IsVideoSource(s)

\* "#ff0000", "#fff", "red", "rgb(0, 0, 255)"
HexRed   == <<"#", "f", "f", "0", "0", "0", "0">>
ShortHex == <<"#", "f", "f", "f">>
NamedRed == <<"r", "e", "d">>
RgbBlue  == <<"r", "g", "b", "(", "0", ",", " ", "0", ",", " ", "2", "5", "5", ")">>
ColourStrings == {HexRed, ShortHex, NamedRed, RgbBlue}

\* a.mp4, c.png, my.movie.jpg, clips.mp4/c.png
PropSrcs == {<<"a", ".mp4">>, <<"c", ".png">>, <<"my", ".mov", "ie", ".jpg">>,
             <<"clips", ".mp4", "/c", ".png">>}

Components == {"HalftoneEffect", "Halftone", "Halftone (part_001)"}

\* the props a parent can pass; mediaType is a prop of HalftoneEffect, video
\* (the source came as the video prop) of Halftone
Props(comp) ==
    [src : PropSrcs,
     mediaType : IF comp = "HalftoneEffect" THEN {"auto", "image", "video"} ELSE {"auto"},
     video : IF comp = "Halftone" THEN BOOLEAN ELSE {FALSE},
     type : {"duotone", "cmyk", "halftone", "constructor"},
     dotShape : {"rectangle", "star"},
     pattern : {"radial-9", "toString"},
     dotColor : ColourStrings,
     duotoneColor2 : {HexRed, NamedRed}]

PropsInit ==
    /\ \E comp \in Components : Driver0(comp, Null)
    /\ Gpu0
    /\ props \in Props(component)
    /\ box = << >> /\ media = << >> /\ canvasSize = << >>

\* the detect effect of HalftoneEffect and the source test of the load effect
\* of Halftone, run after the mount
PropsDetect ==
    /\ last.h = "mount"
    /\ component # "Halftone (part_001)"
    /\ actualMediaType' = IF component = "HalftoneEffect"
                          THEN ActualMediaType(props.mediaType, props.src)
                          ELSE actualMediaType
    /\ isVideo' = IF component = "Halftone"
                  THEN HalftoneIsVideoSource(props.video, props.src)
                  ELSE isVideo
    /\ last' = Handled("detect", props.src, << >>)
    /\ UNCHANGED <<gpu, layout, component, mounted, renderTarget, src, settings,
                   customShapeUrl, mediaLoaded, reglRef, glRef, textureRef,
                   customShapeTextureRef, drawCommandRef, animationFrameRef, videoRef,
                   imageRef, textures, texData, loads, pending, uncaught>>

\* the console.warn calls of the two colours
Warnings(p, c1, c2) ==
    (IF c1.warned THEN <<Op("warn", << >>, p.dotColor)>> ELSE << >>)
        \o (IF c2.warned THEN <<Op("warn", << >>, p.duotoneColor2)>> ELSE << >>)

\* renderFrame of HalftoneEffect: the draw command gets the colours and the
\* three codes as props
EffectUniforms(p, c1, c2, rt, rs, rp) ==
    [threw |-> rt.threw \/ rs.threw \/ rp.threw, ops |-> Warnings(p, c1, c2),
     uniforms |-> [halftoneType |-> rt.value, dotShape |-> rs.value, pattern |-> rp.value,
                   dotColor |-> c1.rgb, duotoneColor2 |-> c2.rgb]]

\* renderFrame of Halftone: gl.uniform1i and gl.uniform3f
HalftoneUniforms(p, c1, c2) ==
    [threw |-> FALSE, ops |-> Warnings(p, c1, c2),
     uniforms |-> [halftoneType |-> uniform1i(CodeOrZero(typeMap, p.type)),
                   dotShape |-> uniform1i(CodeOrZero(shapeMap, p.dotShape)),
                   pattern |-> uniform1i(CodeOrZero(patternMap, p.pattern)),
                   dotColor |-> c1.rgb, duotoneColor2 |-> c2.rgb]]

\* the uniforms renderFrame sets from the props, the notices it makes, and
\* whether it throws
PropsUniforms(comp, build, p) ==
    IF comp = "HalftoneEffect"
    THEN EffectUniforms(p, EffectParseColor(p.dotColor), EffectParseColor(p.duotoneColor2),
                        ReglIntUniform(build, CodeOrZero(typeMap, p.type)),
                        ReglIntUniform(build, CodeOrZero(shapeMap, p.dotShape)),
                        ReglIntUniform(build, CodeOrZero(patternMap, p.pattern)))
    ELSE IF comp = "Halftone"
    THEN HalftoneUniforms(p, parseColor(p.dotColor), parseColor(p.duotoneColor2))
    ELSE [threw |-> FALSE, ops |-> << >>, uniforms |-> [dotColor |-> hexToRgb(p.dotColor).rgb]]

\* renderFrame has made r of the props: an error of regl leaves the uniforms
\* unset and nothing is drawn
PropsRendered(r) ==
    /\ uniforms' = IF r.threw THEN uniforms ELSE r.uniforms
    /\ uncaught' = r.threw
    /\ last' = Handled("renderFrame", props.src, r.ops)
    /\ UNCHANGED <<layout, glsl, grid, buffer, drawn, component, mounted,
                   renderTarget, src, settings, customShapeUrl, mediaLoaded,
                   actualMediaType, isVideo, reglRef, glRef, textureRef,
                   customShapeTextureRef, drawCommandRef, animationFrameRef,
                   videoRef, imageRef, textures, texData, loads, pending>>

\* renderFrame: the props become uniforms
PropsRender(build) ==
    /\ last.h # "renderFrame"
    /\ component = "Halftone (part_001)" \/ last.h = "detect"
    /\ PropsRendered(PropsUniforms(component, build, props))

PropsNext ==
    \/ PropsDetect
    \/ \E build \in ReglBuilds : PropsRender(build)

PropsSpec == PropsInit /\ [][PropsNext]_vars

----------------------------------------------------------------------------
\* The size of the canvas of HalftoneEffect

MaxBox == 5        \* largest width and height of the box, in pixels
MaxDim == 3        \* largest natural width and height of the media

ObjectFits == {"contain", "cover", "fill"}

\* Math.round(num / den), num >= 0, den > 0
Round(num, den) == (2 * num + den) \div (2 * den)

\* updateCanvasSize with contain taken for cover
updateCanvasSizeCover(width, height, objectFit, mw, mh) ==
    IF objectFit \in {"contain", "cover"}
    THEN IF mw * height > width * mh
         THEN [width |-> Round(height * mw, mh), height |-> height]
         ELSE [width |-> width, height |-> Round(width * mh, mw)]
    ELSE [width |-> width, height |-> height]

\* updateCanvasSize(aspectRatio) of a render with the given width, height and
\* objectFit; aspectRatio = mw / mh
updateCanvasSize(width, height, objectFit, mw, mh) ==
    IF objectFit = "contain"
    THEN IF mw * height > width * mh
         THEN [width |-> width, height |-> Round(width * mh, mw)]
         ELSE [width |-> Round(height * mw, mh), height |-> height]
    ELSE IF objectFit = "cover"
    THEN IF mw * height > width * mh
         THEN [width |-> Round(height * mw, mh), height |-> height]
         ELSE [width |-> width, height |-> Round(width * mh, mw)]
    ELSE [width |-> width, height |-> height]

Box(width, height, objectFit) == [width |-> width, height |-> height, objectFit |-> objectFit]

\* the media element the load effect created: its natural size, the props of
\* the render whose load effect created it, and whether it has loaded
Media(mw, mh, closure, loaded) ==
    [width |-> mw, height |-> mh, closure |-> closure, loaded |-> loaded]

\* what the functions of a render close over: its props width, height and
\* objectFit and its state canvasSize
Closure(b, size) ==
    [width |-> b.width, height |-> b.height, objectFit |-> b.objectFit, canvasSize |-> size]

\* createDrawCommand of a render whose canvasSize is size, called when
\* drawCommandRef holds no command: the uniform resolution is
\* () => [canvasSize.width, canvasSize.height]
createDrawCommand(command, size) ==
    IF command # << >> THEN command ELSE [resolution |-> Vec(size.width, size.height)]

\* the draw call: the resolution the command passes to the shader, and the
\* width and height of the canvas it draws to
Evaluated(command, size, by) ==
    [resolution |-> command.resolution, canvas |-> Vec(size.width, size.height), by |-> by]

\* the first render: useState({ width, height })
CanvasInit0(b) ==
    /\ Driver0("HalftoneEffect", Null)
    /\ Gpu0
    /\ props = << >>
    /\ box = b
    /\ canvasSize = [width |-> b.width, height |-> b.height]

\* the load effect runs for a new src: it creates the media element, whose
\* handler closes over updateCanvasSize of this render
CanvasLoad(mw, mh) ==
    /\ media' = Media(mw, mh, Closure(box, canvasSize), FALSE)
    /\ UNCHANGED <<driver, gpu, props, box, canvasSize>>

\* img.onload / video.onloadedmetadata: updateCanvasSize(aspectRatio), the
\* draw command is created if there is none, and setMediaLoaded(true) renders
\* again: the canvas takes its new size and the frame is drawn
CanvasOnload ==
    /\ media # << >>
    /\ ~media.loaded
    /\ canvasSize' = updateCanvasSize(media.closure.width, media.closure.height,
                                      media.closure.objectFit, media.width, media.height)
    /\ media' = [media EXCEPT !.loaded = TRUE]
    /\ uniforms' = createDrawCommand(uniforms, media.closure.canvasSize)
    /\ drawn' = Evaluated(uniforms', canvasSize', "onload")
    /\ UNCHANGED <<driver, glsl, grid, buffer, props, box>>

\* a halftone setting changes while the media is loaded: the re-render effect
\* draws the frame
CanvasSetSettings ==
    /\ media # << >>
    /\ media.loaded
    /\ drawn' = Evaluated(uniforms, canvasSize, "settings")
    /\ UNCHANGED <<driver, glsl, uniforms, grid, buffer, layout>>

\* the parent passes another width, height or objectFit: the component
\* renders again; src is the same, so the load effect does not run
CanvasSetBox(b) ==
    /\ b # box
    /\ box' = b
    /\ UNCHANGED <<driver, gpu, props, media, canvasSize>>

\* boxes and media of the resizing component
Boxes  == {Box(w, 4, f) : w \in {4, 6}, f \in ObjectFits}
Medias == {<<2, 1>>, <<1, 2>>}

CanvasInit ==
    /\ \E b \in Boxes : CanvasInit0(b)
    /\ media = << >>

CanvasNext ==
    \/ \E m \in Medias : CanvasLoad(m[1], m[2])
    \/ CanvasOnload
    \/ CanvasSetSettings
    \/ \E b \in Boxes : CanvasSetBox(b)

CanvasSpec == CanvasInit /\ [][CanvasNext]_vars

\* updateCanvasSize over every box and every media size: one load each
FitInit ==
    /\ \E w \in 1..MaxBox, h \in 1..MaxBox, f \in ObjectFits : CanvasInit0(Box(w, h, f))
    /\ \E mw \in 1..MaxDim, mh \in 1..MaxDim : media = Media(mw, mh, Closure(box, canvasSize), FALSE)

FitNext == CanvasOnload

FitSpec == FitInit /\ [][FitNext]_vars

----------------------------------------------------------------------------
\* The dot of one cell, over every brightness and every position in the cell

MaxDotSize == 4     \* largest dotSize, in pixels
MaxOffset  == 3     \* largest distance from the cell centre per axis, in half pixels

\* the colours a cell can sample: six greys from black to white, and red
SourceColours == {[i \in 1..3 |-> 51 * n] : n \in 0..5} \cup {Red}

Brightnesses == {getBrightness(s) : s \in SourceColours}

\* cellCenter in steps of half a pixel
Offsets == {(Fix \div 2) * n : n \in (0 - MaxOffset)..MaxOffset}

\* the custom-shape texture is bound
DotInit ==
    /\ Driver0("HalftoneEffect", 1)
    /\ Layout0
    /\ glsl \in GlslImplementations
    /\ uniforms \in [dotSize : 1..MaxDotSize, dotShape : 0..3, halftoneType : 0..3,
                     dotColor : {Black}, duotoneColor2 : {Red},
                     hasCustomShape : {HasCustomShape(customShapeTextureRef)}]
    /\ grid = << >> /\ buffer = << >> /\ drawn = << >>

\* a cell whose centre lies at distance -p from the pixel
CellAt(p) == [cellCenter |-> p, unrotatedCellCenter |-> Vec(0, 0), resolution |-> Vec(ResW, ResH)]

\* main() from the sampled colour on, at cellCenter p of a cell of colour s
DotShade(s, p) ==
    /\ drawn = << >>
    /\ drawn' = [sourceColor |-> s,
                 frag |-> FragmentSampled(glsl, uniforms, ShapeTexture, CellAt(p), s)]
    /\ UNCHANGED <<driver, layout, glsl, uniforms, grid, buffer>>

DotNext == \E s \in SourceColours, x \in Offsets, y \in Offsets : DotShade(s, Vec(x, y))

DotSpec == DotInit /\ [][DotNext]_vars

----------------------------------------------------------------------------
\* Properties

EvalsIn(ops) == Cardinality({i \in DOMAIN ops : ops[i].op = "eval"})

OpsOf(ops) == [i \in DOMAIN ops |-> ops[i].op]

varsButLast == <<component, mounted, renderTarget, src, settings, customShapeUrl,
                 mediaLoaded, actualMediaType, isVideo, reglRef, glRef, textureRef,
                 customShapeTextureRef, drawCommandRef, animationFrameRef, videoRef,
                 imageRef, textures, texData, loads, pending, uncaught, gpu, layout>>

\* C1: in HalftoneEffect, when the metadata of a video element arrives while
\* the render target is canvas or export, the handler evaluates the Sampler
\* exactly once, and when it is done no animation-frame callback is pending.
StaticVideoLoadRendersOnce ==
    [][ \A l \in loads :
            (EffectVideoOnloadedmetadata(l) /\ mounted /\ IsStatic(renderTarget)) =>
                (EvalsIn(last'.ops) = 1 /\ pending' = {})
      ]_vars

\* C2: a tick of a video loop that evaluates the Sampler has filled the
\* texture from the frame of its video immediately before, in the same tick,
\* and the evaluation reads exactly that data; a tick that does not fill the
\* texture does not evaluate.
TickUploadsBeforeEval ==
    last.h = "tick" =>
        \/ \A i \in DOMAIN last.ops : last.ops[i].op \notin {"upload", "eval"}
        \/ /\ OpsOf(last.ops) = << "upload", "eval", "raf" >>
           /\ last.ops[1].data = VideoFrame(last.src)
           /\ last.ops[2].data = last.ops[1].data
           /\ texData = last.ops[2].data

TickEvaluated ==
    /\ last.h = "tick" /\ mounted
    /\ OpsOf(last.ops) = << "upload", "eval", "raf" >>
    /\ Cardinality(pending) = 1

\* C3: at most one animation-frame callback is pending.
AtMostOnePending == Cardinality(pending) <= 1

\* C4: after the unmount no animation-frame callback is pending.
NoTickAfterTeardown == ~mounted => pending = {}

\* C5: a callback of a video loop that runs while the render target is canvas
\* or export makes no texture upload and no evaluation and requests no
\* further callback.
TickStopsWhenStatic ==
    [][ \A f \in pending :
            (EffectTick(f) /\ mounted /\ IsStatic(renderTarget)) =>
                (last'.ops = << >> /\ pending' = pending \ {f})
      ]_vars

\* C6: every evaluation of a tick uses the current settings.
TickUsesCurrentSettings ==
    last.h = "tick" =>
        \A i \in DOMAIN last.ops : last.ops[i].op = "eval" => last.ops[i].cfg = settings

\* C7: while the texture holds the image of the current src and the media
\* counts as loaded, no animation-frame callback is pending.
StaticImageNoTick ==
    (/\ mounted /\ mediaLoaded
     /\ ~IsVideoSource(src)
     /\ textureRef \in textures
     /\ texData = ImageData(src)) => pending = {}

\* C8: with no load in flight and a texture bound that holds a loaded image,
\* a change of the settings evaluates the Sampler over it.
SettingsChangeReevaluatesBoundImage ==
    (/\ last.h = "setSettings" /\ mounted
     /\ loads = {}
     /\ textureRef \in textures
     /\ texData.src # NoSrc /\ ~texData.video) => EvalsIn(last.ops) >= 1

\* C9: after the unmount the texture of textureRef and the texture of
\* customShapeTextureRef are destroyed.
TeardownReleasesTextures ==
    ~mounted => (textureRef \notin textures /\ customShapeTextureRef \notin textures)

TornDownWithBothTextures ==
    /\ ~mounted
    /\ textureRef # Null /\ customShapeTextureRef # Null
    /\ textureRef # customShapeTextureRef

\* C10: the cleanups of the unmount let no exception escape, whatever was
\* started before (no texture, no animation frame, no media loaded included),
\* and run a second time right after they ran they change no ref, no texture
\* and no pending callback.
TeardownIdempotent ==
    [][ (EffectTeardown \/ HalftoneTeardown) =>
            /\ ~uncaught'
            /\ (last.h \in {"teardown", "teardown again"}) => UNCHANGED varsButLast
      ]_vars

TornDownTwice ==
    /\ last.h = "teardown again"
    /\ textureRef # Null /\ mediaLoaded
    /\ textures = {} /\ pending = {}
    /\ ~uncaught

SampleUVInUnitSquare ==
    drawn # << >> =>
        \A px \in Pixels : \A i \in 1..2 :
            /\ drawn.frags[px].unrotatedCellCenter[i] >= 0
            /\ drawn.frags[px].unrotatedCellCenter[i] <= drawn.frags[px].resolution[i]

\* C14, amended: the point at which the source is sampled is the centre of
\* the grid cell of the pixel, so it lies within sqrt(5)/2 spacings of the
\* centre of the pixel (squared distance at most 5/4 spacing^2); its UV may
\* leave [0, 1] by that much.
SamplePointWithinCell ==
    drawn # << >> =>
        \A px \in Pixels :
            LET dx == drawn.frags[px].unrotatedCellCenter[1] - (Fix * px[1] + Fix \div 2)
                dy == drawn.frags[px].unrotatedCellCenter[2] - (Fix * px[2] + Fix \div 2)
                sp == Fix * drawn.uniforms.spacing
            IN  4 * (dx * dx + dy * dy) <= 5 * sp * sp

SampledOutsideUnitSquare ==
    /\ drawn # << >>
    /\ drawn.uniforms.angle = 90 /\ drawn.uniforms.pattern = 1
    /\ \E px \in Pixels :
           drawn.frags[px].unrotatedCellCenter[1] > drawn.frags[px].resolution[1]

\* C15: a frame drawn with halftoneType cmyk (3) equals, pixel by pixel, the
\* frame the same uniforms and texture give with halftoneType monochrome (0).
CmykEqualsMonochrome ==
    (drawn # << >> /\ drawn.uniforms.halftoneType = 3) =>
        buffer = Frame(component, customShapeTextureRef, glsl,
                       [drawn.uniforms EXCEPT !.halftoneType = 0], drawn.grid)

CmykDrawnWithDots ==
    /\ drawn # << >> /\ drawn.uniforms.halftoneType = 3
    /\ \E px \in Pixels : buffer[px] = Black
    /\ \E px \in Pixels : buffer[px] = White

\* C16: after renderFrame of HalftoneEffect or Halftone, no error was raised,
\* and a type, dotShape or pattern that is not one of the enumerated values
\* has set the uniform halftoneType, dotShape or pattern to 0.
UnknownEnumFallsBack ==
    (last.h = "renderFrame" /\ component \in {"HalftoneEffect", "Halftone"}) =>
        /\ ~uncaught
        /\ props.type \notin DOMAIN typeMap => uniforms.halftoneType = 0
        /\ props.dotShape \notin DOMAIN shapeMap => uniforms.dotShape = 0
        /\ props.pattern \notin DOMAIN patternMap => uniforms.pattern = 0

\* a colour string that no parser of the components reads as a colour
Unparseable(s) == HexMatch(s) = << >> /\ RgbMatch(s) = << >>

WarnedAbout(s) == \E i \in DOMAIN last.ops : last.ops[i].op = "warn" /\ last.ops[i].data = s

\* C17: after a renderFrame that set the uniforms, in each component, a
\* dotColor or duotoneColor2 that cannot be parsed has set the uniform to
\* black (0, 0, 0) and a warning naming the string was made.
MalformedColourIsBlack ==
    (last.h = "renderFrame" /\ ~uncaught) =>
        \A f \in {"dotColor", "duotoneColor2"} \cap DOMAIN uniforms :
            Unparseable(props[f]) =>
                /\ uniforms[f] = <<Num(0), Num(0), Num(0)>>
                /\ WarnedAbout(props[f])

\* C18: after the detect effect of HalftoneEffect, with mediaType auto the
\* source is a video exactly when the file extension of its URL is a video
\* extension, and otherwise actualMediaType is the mediaType given; Halftone
\* without a video prop takes the source for a video exactly when the file
\* extension is a video extension.
DetectsByFileExtension ==
    (last.h \in {"detect", "renderFrame"}) =>
        /\ (component = "HalftoneEffect" /\ props.mediaType = "auto") =>
               (actualMediaType = "video" <=> FileExtension(props.src) \in videoExtensions)
        /\ (component = "HalftoneEffect" /\ props.mediaType # "auto") =>
               actualMediaType = props.mediaType
        /\ (component = "Halftone" /\ ~props.video) =>
               (isVideo <=> FileExtension(props.src) \in videoExtensions)

\* C19: once the media has loaded, the canvas size is the size
\* updateCanvasSize gives for the current width, height and objectFit and the
\* media's aspect ratio.
CanvasFollowsBox ==
    (media # << >> /\ media.loaded) =>
        canvasSize = updateCanvasSize(box.width, box.height, box.objectFit,
                                      media.width, media.height)

\* C20: the canvas size updateCanvasSize gave for objectFit contain fits
\* inside the box, equals the box on at least one axis, and has the media's
\* aspect ratio up to the rounding of the other axis.
ContainFitsInsideBox ==
    (media # << >> /\ media.loaded /\ media.closure.objectFit = "contain") =>
        /\ canvasSize.width <= media.closure.width
        /\ canvasSize.height <= media.closure.height
        /\ canvasSize.width = media.closure.width \/ canvasSize.height = media.closure.height
        /\ 2 * Abs(canvasSize.width * media.height - canvasSize.height * media.width)
               <= Max(media.width, media.height)

ContainShrunkOneAxis ==
    /\ media # << >> /\ media.loaded /\ media.closure.objectFit = "contain"
    /\ media.width = 3 /\ media.height = 2
    /\ media.closure.width = 4 /\ media.closure.height = 5
    /\ canvasSize = [width |-> 4, height |-> 3]

\* C21: in a frame drawn with pattern grid-regular (0) and angle 0, the point
\* at which a pixel samples the source is k * spacing + spacing / 2 on each
\* axis, k the index of the pixel's cell; so pixels spacing apart on an axis
\* sample points spacing apart, and the pixels of one cell sample one point.
RegularGridSamplesCellCentres ==
    (drawn # << >> /\ drawn.uniforms.pattern = 0 /\ drawn.uniforms.angle = 0) =>
        LET sp == Fix * drawn.uniforms.spacing
            k(px, i) == (Fix * px[i] + Fix \div 2) \div sp
            at(px, i) == drawn.frags[px].unrotatedCellCenter[i]
        IN  \A px \in Pixels : \A i \in 1..2 :
                /\ 2 * at(px, i) = 2 * k(px, i) * sp + sp
                /\ \A q \in Pixels :
                       /\ q[i] = px[i] + drawn.uniforms.spacing => at(q, i) = at(px, i) + sp
                       /\ k(q, i) = k(px, i) => at(q, i) = at(px, i)

RegularGridSecondCell ==
    /\ drawn # << >> /\ drawn.uniforms.pattern = 0 /\ drawn.uniforms.angle = 0
    /\ drawn.uniforms.spacing = 3
    /\ drawn.frags[<<0, 0>>].unrotatedCellCenter = <<15, 15>>
    /\ drawn.frags[<<2, 1>>].unrotatedCellCenter = <<15, 15>>
    /\ drawn.frags[<<3, 0>>].unrotatedCellCenter = <<45, 15>>

\* C22: for circle, rectangle and line, a cell of lower brightness has a
\* currentDotSize and, at the same position in the cell, a shape value that
\* are not smaller than those computed for this brightness.
DarkerCellHasLargerDot ==
    (drawn # << >> /\ uniforms.dotShape \in {0, 1, 2}) =>
        \A b \in Brightnesses :
            b <= drawn.frag.brightness =>
                /\ DotSize(uniforms.dotSize, b) >= drawn.frag.currentDotSize
                /\ Shape(glsl, uniforms.dotShape, drawn.frag.cellCenter,
                         DotSize(uniforms.dotSize, b)) >= drawn.frag.shape

DotGrewWithDarkness ==
    /\ drawn # << >> /\ glsl = "ieee" /\ uniforms.dotShape = 0 /\ uniforms.dotSize = 4
    /\ drawn.frag.brightness = 600 /\ drawn.frag.cellCenter = <<15, 0>>
    /\ drawn.frag.currentDotSize = 16 /\ drawn.frag.shape = 0
    /\ Shape(glsl, 0, drawn.frag.cellCenter, DotSize(4, 0)) = 1000

\* the frame was drawn by the standard rendering, not from the custom image
StandardRendering ==
    /\ drawn # << >>
    /\ ~(component = "HalftoneEffect" /\ drawn.uniforms.dotShape = 3
                                     /\ drawn.uniforms.hasCustomShape = 1)

\* C23: with halftoneType duotone (1) a fully covered pixel (shape = 1) has
\* the colour mix(dotColor, duotoneColor2, 1 - brightness) of its cell: exactly
\* duotoneColor2 at brightness 0, exactly dotColor at brightness 1, and in
\* between no channel is further from dotColor than duotoneColor2 is.
DuotoneInterpolatesBySizeFactor ==
    (StandardRendering /\ drawn.uniforms.halftoneType = 1) =>
        \A px \in Pixels :
            LET f == drawn.frags[px]
                u == drawn.uniforms
            IN  f.shape = 1000 =>
                    /\ f.gl_FragColor = mix(u.dotColor, u.duotoneColor2, 1000 - f.brightness)
                    /\ f.brightness = 0 => f.gl_FragColor = u.duotoneColor2
                    /\ f.brightness = 1000 => f.gl_FragColor = u.dotColor
                    /\ \A i \in 1..3 :
                           Abs(f.gl_FragColor[i] - u.dotColor[i])
                               <= Abs(u.duotoneColor2[i] - u.dotColor[i])

DuotoneDarkDotDrawn ==
    /\ StandardRendering /\ drawn.uniforms.halftoneType = 1
    /\ component = "HalftoneEffect" /\ drawn.uniforms.dotShape = 0
    /\ \E px \in Pixels :
           /\ drawn.frags[px].shape = 1000 /\ drawn.frags[px].brightness = 0
           /\ drawn.frags[px].gl_FragColor = Red
    /\ \E px \in Pixels : drawn.frags[px].gl_FragColor = White

\* the fragment was drawn from the bound custom image
CustomRendering ==
    /\ drawn # << >> /\ customShapeTextureRef # Null /\ uniforms.dotShape = 3

\* the same uniforms with another halftoneType, dotColor and duotoneColor2
Recoloured(u) ==
    {[u EXCEPT !.halftoneType = t, !.dotColor = cs[1], !.duotoneColor2 = cs[2]] :
        t \in 0..3, cs \in {<<Black, Red>>, <<Red, Black>>, <<Blue, White>>}}

\* C24: a pixel drawn with dotShape custom (3) and a custom-shape texture
\* bound has the same colour for every halftoneType, dotColor and
\* duotoneColor2; outside the dot (imageUV outside [0, 1]) it is the background
\* colour and inside it the custom image blended over the background by its
\* alpha.
CustomDotIgnoresColouring ==
    CustomRendering =>
        LET f == drawn.frag
            texel == ShapeTexture.texels[Vec(0, 0)]
        IN  /\ \A u \in Recoloured(uniforms) :
                   FragmentSampled(glsl, u, ShapeTexture, CellAt(f.cellCenter),
                                   drawn.sourceColor).gl_FragColor = f.gl_FragColor
            /\ f.currentDotSize # 0 =>
                   f.gl_FragColor =
                       IF \A i \in 1..2 : Abs(f.cellCenter[i]) <= f.currentDotSize
                       THEN mix(White, texel.rgb, texel.a)
                       ELSE White

CustomDotDrawn ==
    /\ CustomRendering /\ uniforms.halftoneType = 1 /\ uniforms.dotSize = 1
    /\ drawn.sourceColor = Red /\ drawn.frag.currentDotSize = 7
    /\ \/ drawn.frag.cellCenter = <<5, 5>> /\ drawn.frag.gl_FragColor = Blue
       \/ drawn.frag.cellCenter = <<10, 0>> /\ drawn.frag.gl_FragColor = White

\* C25: the load event of a media element whose src is no longer the src of
\* the component changes no texture, no ref to a media element, no loaded
\* state and no pending animation-frame callback, and makes no GL operation.
SupersededLoadHasNoEffect ==
    [][ \A l \in loads :
            (/\ l.src # src /\ mounted
             /\ \/ EffectImgOnload(l)
                \/ EffectVideoOnloadedmetadata(l)
                \/ \E resized \in BOOLEAN : HalftoneVideoOnloadedmetadata(l, resized)
                \/ \E resized \in BOOLEAN : HalftoneImgOnload(l, resized))
            => /\ UNCHANGED <<textureRef, textures, texData, mediaLoaded, isVideo,
                              videoRef, imageRef, pending, animationFrameRef>>
               /\ last'.ops = << >>
      ]_vars

\* C26: the resolution a draw call passes to the shader is the width and
\* height the canvas has at that draw call.
ResolutionIsCanvasSize == drawn # << >> => drawn.resolution = drawn.canvas

\* C27: the only source texture alive is the one textureRef holds (the
\* texture it held before was destroyed when it was replaced), and after the
\* unmount no texture is alive.
OneSourceTextureAlive ==
    /\ textures \ {customShapeTextureRef} \subseteq {textureRef}
    /\ ~mounted => textures = {}

\* the image of the current src is loaded and drawn from, and no loop runs
StaticImageLoaded ==
    /\ mounted /\ mediaLoaded /\ actualMediaType = "image"
    /\ reglRef /\ drawCommandRef
    /\ textureRef \in textures /\ texData = ImageData(src)
    /\ pending = {}

\* C28: while a static image is loaded, the handler that binds a custom-shape
\* texture (onload of the custom shape) and the one that removes it
\* (customShapeUrl cleared) evaluate the Sampler.
CustomShapeChangeReevaluates ==
    [][ (/\ StaticImageLoaded
         /\ \/ \E l \in loads : EffectShapeOnload(l)
            \/ EffectSetCustomShapeUrl(NoSrc)
         /\ customShapeTextureRef' # customShapeTextureRef)
        => EvalsIn(last'.ops) >= 1
      ]_vars

\* C29: a video element is referenced, by videoRef or by the callback of a
\* render loop, only while the component is mounted and the element is that of
\* the current src.
VideoReleasedWhenReplaced ==
    /\ videoRef # NoSrc => (mounted /\ videoRef = src)
    /\ \A f \in pending : f.video # NoSrc => (mounted /\ f.video = src)

\* the load event of the element of the current src s was handled
SourceLoaded(s) ==
    /\ mounted /\ src = s /\ last.src = s
    /\ last.h \in {"img.onload", "video.onloadedmetadata"}
    /\ component = "Halftone" => glRef

\* the handler that ran last evaluated the Sampler over the media of s
SourceEvaluated(s) ==
    \E i \in DOMAIN last.ops : last.ops[i].op = "eval" /\ last.ops[i].data.src = s

\* C30: once the load event of the element of the current src was handled,
\* the Sampler is eventually evaluated over the media of that src, unless the
\* src changes or the component unmounts.
LoadedSourceIsEvaluated ==
    \A s \in Srcs : SourceLoaded(s) ~> (SourceEvaluated(s) \/ src # s \/ ~mounted)

====
